---- MODULE Spec2Model ----
(***************************************************************************)
(* A model of src/index.ts: an RxJS breakout game.                         *)
(*                                                                         *)
(* Lengths are integers counted in 1/Unit of a pixel, so that the brick    *)
(* width (stage.width - 24) / 7 and the per-millisecond displacements of   *)
(* the ball (0.12 px) and of the paddle (0.24 px) are exact.  Time is      *)
(* counted in milliseconds, as Date.now() is; a ticker's deltaTime (which   *)
(* the code keeps in seconds) is kept in milliseconds and divided by 1000  *)
(* where the code multiplies by it.  An optional value (a stream that has  *)
(* not emitted, the null deltaTime of a first tick) is the empty sequence  *)
(* or a one-element sequence.                                              *)
(*                                                                         *)
(* One session subscribes ticker$ four times (game$, lines 271-277): for   *)
(* the rendered paddle$, for the paddle$ inside state$, for state$ and for *)
(* the rendering stream itself.  Each subscription is an interval timer of *)
(* its own; the four are created in that order with the same period, so    *)
(* their callbacks run in that order in every frame, and key events may    *)
(* arrive between any two of them.                                         *)
(***************************************************************************)
EXTENDS Integers, Sequences, FiniteSets, TLC

VARIABLES
  clock,      \* how the environment paces frames: "regular" or "irregular"
  live,       \* the session's composed stream is subscribed
  retries,    \* retryWhen has subscribed its notifier (after the first error)
  screen,     \* what the canvas shows
  direction,  \* latest value of direction$ since the session subscribed
  pc,         \* the interval callback that runs next in the current frame
  started,    \* per ticker$ subscription: it has emitted its first value
  elapsed,    \* milliseconds between the previous frame and the current one
  steps,      \* reducer steps of the current session so far
  paddleR,    \* paddle$ subscribed by the rendering stream (emitted: in this frame)
  paddleS,    \* paddle$ subscribed inside state$
  state,      \* accumulator of the scan of createState$
  hasState,   \* state$ has emitted (the rendering stream holds a state)
  collision,  \* the Collision record of the latest reducer step
  error,      \* the error restart$ ended the session with
  held        \* arrow keys the session has seen pressed and not yet released

vars == <<clock, live, retries, screen, direction, pc, started, elapsed,
          steps, paddleR, paddleS, state, hasState, collision, error, held>>

----------------------------------------------------------------------------
(* Units and optional values *)

Unit == 25 * 14
Px(n) == n * Unit

None == <<>>
Some(v) == <<v>>
\* JavaScript's ToNumber on a deltaTime: null is 0
ToNumber(v) == IF v = None THEN 0 ELSE v[1]

----------------------------------------------------------------------------
(* The canvas #stage; the page that declares it is outside the program   *)
(* text, the model gives it the size of an HTML canvas without attributes *)

StageWidth == 300
StageHeight == 150

(* constants, lines 51-65 *)
PADDLE_WIDTH == 200
PADDLE_HEIGHT == 20
PADDLE_SPEED == 240
BALL_RADIUS == 10
BALL_SPEED == 60
BRICK_ROWS == 5
BRICK_COLUMNS == 7
BRICK_HEIGHT == 20
BRICK_GAP == 3
TICKER_INTERVAL == (1000 + 59) \div 60
ARROW_LEFT == -1
ARROW_RIGHT == 1

----------------------------------------------------------------------------
(* Bounds of the model *)

\* reducer steps of one session explored under the irregular clock
MaxIrregularSteps == 6
\* reducer steps of one session explored under the regular clock
MaxRegularSteps == 150

\* the regular clock: every frame takes nine timer periods
RegularDelta == 9 * TICKER_INTERVAL
\* the irregular clock: two callbacks in the same millisecond, a late
\* frame, a frame of a throttled page
IrregularDeltas == {0, 34 * TICKER_INTERVAL, 72 * TICKER_INTERVAL}

ClockDeltas == IF clock = "regular" THEN {RegularDelta} ELSE IrregularDeltas
MaxSteps == IF clock = "regular" THEN MaxRegularSteps ELSE MaxIrregularSteps

\* under the regular clock the four callbacks of a frame run back to back
\* and key events fall between frames; under the irregular clock a key
\* event may also fall between two callbacks of a frame
KeysArrive == clock = "regular" => pc = "paddleR"

Keys == {"ArrowLeft", "ArrowRight", "Other"}
Arrows == {"ArrowLeft", "ArrowRight"}
Tickers == {"paddleR", "paddleS", "state", "main"}

----------------------------------------------------------------------------
(* collision functions, lines 126-138 *)

isHit(ball, paddle) ==
  /\ ball.position.x > paddle - Px(PADDLE_WIDTH) \div 2
  /\ ball.position.x < paddle + Px(PADDLE_WIDTH) \div 2
  /\ ball.position.y > Px(StageHeight) - Px(PADDLE_HEIGHT) - Px(BALL_RADIUS)

isCollision(ball, brick) ==
  /\ ball.position.x + Px(ball.direction.x) > brick.x - brick.width \div 2
  /\ ball.position.x + Px(ball.direction.x) < brick.x + brick.width \div 2
  /\ ball.position.y + Px(ball.direction.y) > brick.y - brick.height \div 2
  /\ ball.position.y + Px(ball.direction.y) < brick.y + brick.height \div 2

----------------------------------------------------------------------------
(* direction$, lines 144-150 *)

KeyDownDirection(key) ==
  IF key = "ArrowLeft" THEN Some(ARROW_LEFT)
  ELSE IF key = "ArrowRight" THEN Some(ARROW_RIGHT)
  ELSE direction

\* a release that falls back to the arrow key that is still held
KeyUpDirectionHeld(key) ==
  IF held \ {key} = {"ArrowLeft"} THEN Some(ARROW_LEFT)
  ELSE IF held \ {key} = {"ArrowRight"} THEN Some(ARROW_RIGHT)
  ELSE Some(0)

KeyUpDirection(key) == Some(0)

----------------------------------------------------------------------------
(* ticker$, lines 152-161: the first value of a subscription passes the   *)
(* seedless scan as mapped, with deltaTime null                           *)

\* a ticker whose scan is seeded one timer period back: its first value
\* carries a deltaTime already
TickerSeeded(name) ==
  [deltaTime |-> Some(IF started[name] THEN elapsed ELSE TICKER_INTERVAL)]

Ticker(name) == [deltaTime |-> IF started[name] THEN Some(elapsed) ELSE None]

----------------------------------------------------------------------------
(* createPaddle$, lines 163-175 *)

\* ticker.deltaTime * PADDLE_SPEED * direction
PaddleDist(ticker, dir) ==
  (ToNumber(ticker.deltaTime) * Px(PADDLE_SPEED) * dir) \div 1000

Max(a, b) == IF a >= b THEN a ELSE b
Min(a, b) == IF a <= b THEN a ELSE b

\* the clamp without its lower bound
NextPositionNoMax(position, dist) ==
  Min(position + dist, Px(StageWidth) - Px(PADDLE_WIDTH) \div 2)

NextPosition(position, dist) ==
  Max(Min(position + dist, Px(StageWidth) - Px(PADDLE_WIDTH) \div 2),
      Px(PADDLE_WIDTH) \div 2)

PaddleSeed == [position |-> Px(StageWidth) \div 2, latest |-> None, emitted |-> FALSE]

\* the paddle stream over a direction$ that starts with 0: a tick before
\* the first key event is integrated with direction 0
PaddleTickStartWith(paddle, ticker) ==
  LET dir == IF direction = None THEN 0 ELSE direction[1]
      next == NextPosition(paddle.position, PaddleDist(ticker, dir))
  IN [position |-> next,
      latest |-> Some(next),
      emitted |-> (paddle.latest = None \/ paddle.latest # Some(next))]

\* the paddle stream without distinctUntilChanged: every scan result is
\* emitted
PaddleTickNoDistinct(paddle, ticker) ==
  IF direction = None
  THEN [paddle EXCEPT !.emitted = FALSE]
  ELSE LET next == NextPosition(paddle.position, PaddleDist(ticker, direction[1]))
       IN [position |-> next, latest |-> Some(next), emitted |-> TRUE]

\* one ticker value through withLatestFrom, scan and distinctUntilChanged
PaddleTick(paddle, ticker) ==
  IF direction = None
  THEN [paddle EXCEPT !.emitted = FALSE]
  ELSE LET next == NextPosition(paddle.position, PaddleDist(ticker, direction[1]))
       IN [position |-> next,
           latest |-> Some(next),
           emitted |-> (paddle.latest = None \/ paddle.latest # Some(next))]

----------------------------------------------------------------------------
(* createBricks and initialState, lines 178-208 *)

BrickWidth ==
  (Px(StageWidth) - Px(BRICK_GAP) - Px(BRICK_GAP) * BRICK_COLUMNS) \div BRICK_COLUMNS

Brick(i, j) ==
  [x |-> j * (BrickWidth + Px(BRICK_GAP)) + BrickWidth \div 2 + Px(BRICK_GAP),
   y |-> i * (Px(BRICK_HEIGHT) + Px(BRICK_GAP)) + Px(BRICK_HEIGHT) \div 2
         + Px(BRICK_GAP) + Px(20),
   width |-> BrickWidth,
   height |-> Px(BRICK_HEIGHT)]

createBricks ==
  [k \in 1..(BRICK_ROWS * BRICK_COLUMNS) |->
     Brick((k - 1) \div BRICK_COLUMNS, (k - 1) % BRICK_COLUMNS)]

initialState ==
  [ball |-> [position |-> [x |-> Px(StageWidth) \div 2, y |-> Px(StageHeight) \div 2],
             direction |-> [x |-> 2, y |-> 2]],
   bricks |-> createBricks,
   score |-> 0]

NoCollision ==
  [paddle |-> FALSE, floor |-> FALSE, wall |-> FALSE, ceiling |-> FALSE, brick |-> FALSE]

----------------------------------------------------------------------------
(* the reducer of createState$, lines 212-261 *)

\* a deltaTime guarded with "|| TICKER_INTERVAL": null and 0 both become a
\* timer period
AdvanceOrInterval(position, dir, ticker) ==
  LET dt == IF ToNumber(ticker.deltaTime) = 0 THEN TICKER_INTERVAL
            ELSE ToNumber(ticker.deltaTime)
  IN [x |-> position.x + (dir.x * dt * Px(BALL_SPEED)) \div 1000,
      y |-> position.y + (dir.y * dt * Px(BALL_SPEED)) \div 1000]

\* lines 224-225: position + direction * ticker.deltaTime * BALL_SPEED
Advance(position, dir, ticker) ==
  [x |-> position.x + (dir.x * ToNumber(ticker.deltaTime) * Px(BALL_SPEED)) \div 1000,
   y |-> position.y + (dir.y * ToNumber(ticker.deltaTime) * Px(BALL_SPEED)) \div 1000]

RECURSIVE Reverse(_)
Reverse(s) == IF s = <<>> THEN <<>> ELSE Append(Reverse(Tail(s)), Head(s))

\* the kept bricks put at the front of remainingBricks (unshift for push)
RemainingBricksUnshift(ball, bricks) ==
  LET Kept(brick) == ~isCollision(ball, brick)
  IN Reverse(SelectSeq(bricks, Kept))

\* lines 228-235: the bricks pushed to remainingBricks
RemainingBricks(ball, bricks) ==
  LET Kept(brick) == ~isCollision(ball, brick)
  IN SelectSeq(bricks, Kept)

\* the score counting bricks instead of points
HitScoreOne(score, hits) == score + hits

\* line 232: score = score + 10, once per brick that is hit
HitScore(score, hits) == score + 10 * hits

\* line 241
WallHit(position) ==
  \/ position.x < Px(BALL_RADIUS)
  \/ position.x > Px(StageWidth) - Px(BALL_RADIUS)

\* line 248
CeilingHit(position) == position.y < Px(BALL_RADIUS)

\* the reducer with a y flip counted per collision: once for every brick
\* hit, once for the paddle, once for the ceiling
ReducerCountedFlips(st, ticker, paddle) ==
  LET position == Advance(st.ball.position, st.ball.direction, ticker)
      moved == [position |-> position, direction |-> st.ball.direction]
      remainingBricks == RemainingBricks(moved, st.bricks)
      hits == Len(st.bricks) - Len(remainingBricks)
      col == [paddle |-> isHit(moved, paddle),
              floor |-> FALSE,
              wall |-> WallHit(position),
              ceiling |-> CeilingHit(position),
              brick |-> hits > 0]
      flips == hits + (IF col.paddle THEN 1 ELSE 0) + (IF col.ceiling THEN 1 ELSE 0)
      dx == IF col.wall THEN -st.ball.direction.x ELSE st.ball.direction.x
      dy == IF flips % 2 = 1 THEN -st.ball.direction.y ELSE st.ball.direction.y
  IN [state |-> [ball |-> [position |-> position, direction |-> [x |-> dx, y |-> dy]],
                 bricks |-> remainingBricks,
                 score |-> HitScore(st.score, hits)],
      collision |-> col]

Reducer(st, ticker, paddle) ==
  LET position == Advance(st.ball.position, st.ball.direction, ticker)
      moved == [position |-> position, direction |-> st.ball.direction]
      remainingBricks == RemainingBricks(moved, st.bricks)
      hits == Len(st.bricks) - Len(remainingBricks)
      col == [paddle |-> isHit(moved, paddle),
              floor |-> FALSE,
              wall |-> WallHit(position),
              ceiling |-> CeilingHit(position),
              brick |-> hits > 0]
      dx == IF col.wall THEN -st.ball.direction.x ELSE st.ball.direction.x
      dy == IF col.brick \/ col.paddle \/ col.ceiling
            THEN -st.ball.direction.y ELSE st.ball.direction.y
  IN [state |-> [ball |-> [position |-> position, direction |-> [x |-> dx, y |-> dy]],
                 bricks |-> remainingBricks,
                 score |-> HitScore(st.score, hits)],
      collision |-> col]

----------------------------------------------------------------------------
(* updateView, lines 285-302 *)

\* the floor test with the radius added instead of subtracted
IsGameOverPlus(ball) == ball.position.y > Px(StageHeight) + Px(BALL_RADIUS)
\* the floor test without the radius
IsGameOverNoRadius(ball) == ball.position.y > Px(StageHeight)

\* line 293
IsGameOver(ball) == ball.position.y > Px(StageHeight) - Px(BALL_RADIUS)
\* the win test off by one
IsCongOffByOne(bricks) == Len(bricks) <= 1

\* line 298
IsCong(bricks) == Len(bricks) = 0

\* the canvas after updateView: a message clears what was drawn before it
ViewOf(st) ==
  IF IsCong(st.bricks) THEN "Congradulations!"
  ELSE IF IsGameOver(st.ball) THEN "GAME OVER"
  ELSE "game"

\* the error restart$ signals: the first call stops the subject, a second
\* call does nothing
ErrorOf(st) ==
  IF IsGameOver(st.ball) THEN Some("game over")
  ELSE IF IsCong(st.bricks) THEN Some("cong")
  ELSE None

----------------------------------------------------------------------------
(* game$, lines 264-282 *)

\* a seed built once and shared: the ball the reducer mutated in place
SeedShared(previous) == [initialState EXCEPT !.ball = previous.ball]

\* the seed of the scan of the next session's state$ (line 261), built by
\* createState$ when game$ is subscribed again (line 272); previous is the
\* accumulator of the session that ended
SeedAfter(previous) == initialState

TypeOK ==
  /\ clock \in {"regular", "irregular"}
  /\ live \in BOOLEAN /\ retries \in BOOLEAN /\ hasState \in BOOLEAN
  /\ screen \in {"intro", "game", "GAME OVER", "Congradulations!"}
  /\ direction \in {None, Some(-1), Some(0), Some(1)}
  /\ pc \in Tickers
  /\ started \in [Tickers -> BOOLEAN]
  /\ elapsed \in Nat
  /\ steps \in 0..MaxSteps
  /\ error \in {None, Some("game over"), Some("cong")}
  /\ held \subseteq Arrows
  /\ live <=> error = None

\* what subscribing game$ sets up: drawIntro and the session's streams
Init ==
  /\ clock \in {"regular", "irregular"}
  /\ retries = FALSE
  /\ live = TRUE
  /\ screen = "intro"
  /\ direction = None
  /\ pc = "paddleR"
  /\ started = [t \in Tickers |-> FALSE]
  /\ elapsed = 0
  /\ steps = 0
  /\ paddleR = PaddleSeed
  /\ paddleS = PaddleSeed
  /\ state = initialState
  /\ hasState = FALSE
  /\ collision = NoCollision
  /\ error = None
  /\ held = {}

\* a key press that moves the rendered paddle at once, by one timer period
KeyDownMoves(key) ==
  /\ live /\ KeysArrive
  /\ direction' = KeyDownDirection(key)
  /\ held' = held \cup ({key} \cap Arrows)
  /\ paddleR' = [paddleR EXCEPT !.position =
                    NextPosition(@, PaddleDist([deltaTime |-> Some(TICKER_INTERVAL)],
                                                ToNumber(direction')))]
  /\ UNCHANGED <<clock, live, retries, screen, pc, started, elapsed, steps,
                 paddleS, state, hasState, collision, error>>

KeyDown(key) ==
  /\ live /\ KeysArrive
  /\ direction' = KeyDownDirection(key)
  /\ held' = held \cup ({key} \cap Arrows)
  /\ UNCHANGED <<clock, live, retries, screen, pc, started, elapsed, steps,
                 paddleR, paddleS, state, hasState, collision, error>>

KeyUp(key) ==
  /\ live /\ KeysArrive
  /\ direction' = KeyUpDirection(key)
  /\ held' = held \ {key}
  /\ UNCHANGED <<clock, live, retries, screen, pc, started, elapsed, steps,
                 paddleR, paddleS, state, hasState, collision, error>>

\* the interval callback of the rendered paddle$, the first of a frame
TickPaddleR ==
  /\ live /\ pc = "paddleR"
  /\ steps < MaxSteps
  /\ \E d \in ClockDeltas :
       /\ elapsed' = (IF started["paddleR"] THEN d ELSE 0)
       /\ paddleR' = PaddleTick(paddleR,
                       [deltaTime |-> IF started["paddleR"] THEN Some(d) ELSE None])
  /\ started' = [started EXCEPT !["paddleR"] = TRUE]
  /\ pc' = "paddleS"
  /\ UNCHANGED <<clock, live, retries, screen, direction, steps,
                 paddleS, state, hasState, collision, error, held>>

\* the interval callback of the paddle$ inside state$
TickPaddleS ==
  /\ live /\ pc = "paddleS"
  /\ paddleS' = PaddleTick(paddleS, Ticker("paddleS"))
  /\ started' = [started EXCEPT !["paddleS"] = TRUE]
  /\ pc' = "state"
  /\ UNCHANGED <<clock, live, retries, screen, direction, elapsed, steps,
                 paddleR, state, hasState, collision, error, held>>

\* state$ over a paddle$ that starts with the stage centre: the reducer
\* runs on every tick, key event or not
TickStateStartWith ==
  /\ live /\ pc = "state"
  /\ LET paddle == IF paddleS.latest = None THEN paddleS.position ELSE paddleS.latest[1]
         r == Reducer(state, Ticker("state"), paddle)
     IN /\ state' = r.state
        /\ collision' = r.collision
        /\ hasState' = TRUE
        /\ steps' = steps + 1
  /\ started' = [started EXCEPT !["state"] = TRUE]
  /\ pc' = "main"
  /\ UNCHANGED <<clock, live, retries, screen, direction, elapsed,
                 paddleR, paddleS, error, held>>

\* the interval callback of state$: withLatestFrom(paddle$), then the reducer
TickState ==
  /\ live /\ pc = "state"
  /\ IF paddleS.latest = None
     THEN UNCHANGED <<state, hasState, collision, steps>>
     ELSE LET r == Reducer(state, Ticker("state"), paddleS.latest[1])
          IN /\ state' = r.state
             /\ collision' = r.collision
             /\ hasState' = TRUE
             /\ steps' = steps + 1
  /\ started' = [started EXCEPT !["state"] = TRUE]
  /\ pc' = "main"
  /\ UNCHANGED <<clock, live, retries, screen, direction, elapsed,
                 paddleR, paddleS, error, held>>

\* the interval callback of the rendering stream: withLatestFrom(paddle$,
\* state$), then updateView; an error of restart$ ends the session
TickMain ==
  /\ live /\ pc = "main"
  /\ IF paddleR.latest = None \/ ~hasState
     THEN UNCHANGED <<screen, live, retries, error>>
     ELSE /\ screen' = ViewOf(state)
          /\ error' = ErrorOf(state)
          /\ live' = (ErrorOf(state) = None)
          /\ retries' = (retries \/ ErrorOf(state) # None)
  /\ started' = [started EXCEPT !["main"] = TRUE]
  /\ pc' = "paddleR"
  /\ elapsed' = 0
  /\ paddleR' = [paddleR EXCEPT !.emitted = FALSE]
  /\ paddleS' = [paddleS EXCEPT !.emitted = FALSE]
  /\ UNCHANGED <<clock, direction, steps, state, hasState, collision, held>>

\* game$ subscribed without retryWhen: the error ends the game for good
RestartNoRetry == FALSE /\ UNCHANGED vars

\* the delayed notification of retryWhen: game$ is subscribed again
Restart ==
  /\ ~live
  /\ live' = TRUE
  /\ screen' = "intro"
  /\ direction' = None
  /\ pc' = "paddleR"
  /\ started' = [t \in Tickers |-> FALSE]
  /\ elapsed' = 0
  /\ steps' = 0
  /\ paddleR' = PaddleSeed
  /\ paddleS' = PaddleSeed
  /\ state' = SeedAfter(state)
  /\ hasState' = FALSE
  /\ collision' = NoCollision
  /\ error' = None
  /\ held' = {}
  /\ UNCHANGED <<clock, retries>>

Next ==
  \/ \E key \in Keys : KeyDown(key)
  \/ \E key \in Keys : KeyUp(key)
  \/ TickPaddleR
  \/ TickPaddleS
  \/ TickState
  \/ TickMain
  \/ Restart

Spec == Init /\ [][Next]_vars

\* the timer of delay(1000) fires: a session that ended is started again
FairSpec == Spec /\ WF_vars(Restart)

----------------------------------------------------------------------------
(* Steps of a behaviour that the properties below speak about *)

\* a step of the reducer of state$
ReducerStep == steps' = steps + 1
\* a call of updateView
RenderStep == live /\ pc = "main" /\ pc' = "paddleR" /\ paddleR.latest # None /\ hasState
\* game$ is subscribed again: a new session starts
NewSession == ~live /\ live'

InitialBrickCount == BRICK_ROWS * BRICK_COLUMNS

RECURSIVE IsSubSeq(_, _)
\* s is t with some elements left out, the others in the same order
IsSubSeq(s, t) ==
  IF s = <<>> THEN TRUE
  ELSE IF t = <<>> THEN FALSE
  ELSE IF Head(s) = Head(t) THEN IsSubSeq(Tail(s), Tail(t))
  ELSE IsSubSeq(s, Tail(t))

----------------------------------------------------------------------------
\* C1: within a session every step changes the score by 10 times the number
\* of bricks it removes; so the score is never negative, never decreases,
\* is 10 x (initial bricks - remaining bricks), and is 10 x initial bricks
\* exactly when no brick remains.
C1_ScoreAccounting ==
  /\ [](/\ state.score >= 0
        /\ state.score = 10 * (InitialBrickCount - Len(state.bricks))
        /\ (state.score = 10 * InitialBrickCount <=> state.bricks = <<>>))
  /\ [][~NewSession =>
          /\ state'.score - state.score = 10 * (Len(state.bricks) - Len(state'.bricks))
          /\ state'.score >= state.score]_vars

\* every brick has been removed and the score is 350
C1_Witness == state.bricks = <<>> /\ state.score = 350 /\ collision.brick

\* C2: within a session the bricks after a step are a sub-sequence of the
\* bricks before it (same relative order), so the collection never grows
\* and a removed brick does not come back.
C2_BricksOnlyShrink ==
  [][~NewSession =>
       /\ IsSubSeq(state'.bricks, state.bricks)
       /\ Len(state'.bricks) <= Len(state.bricks)]_vars

\* a reducer step has just removed a brick, after another one was removed
\* earlier, and bricks remain
C2_Witness ==
  /\ collision.brick /\ pc = "main"
  /\ Len(state.bricks) > 0
  /\ Len(state.bricks) < InitialBrickCount - 1

\* C3: every value a paddle stream has emitted lies in
\* [PADDLE_WIDTH/2, stageWidth - PADDLE_WIDTH/2].
C3_PaddleInRange ==
  \A p \in {paddleR, paddleS} :
    p.latest # None =>
      /\ p.latest[1] >= Px(PADDLE_WIDTH) \div 2
      /\ p.latest[1] <= Px(StageWidth) - Px(PADDLE_WIDTH) \div 2

\* a tick with a long delta has pushed the paddle to the left end and the
\* clamp has held it there
C3_Witness ==
  /\ pc = "paddleS" /\ started["paddleS"] /\ elapsed > 0
  /\ direction = Some(ARROW_LEFT)
  /\ paddleR.emitted
  /\ paddleR.latest = Some(Px(PADDLE_WIDTH) \div 2)

\* C4: a session that starts after a terminal condition starts from the
\* fresh initial state (score 0, the full grid of createBricks, the ball at
\* the stage centre with direction (2, 2)), and until its first reducer
\* step nothing of an earlier session is in its state.
C4_FreshSession ==
  /\ [][NewSession =>
          /\ state'.score = 0
          /\ Len(state'.bricks) = InitialBrickCount
          /\ state'.bricks = createBricks
          /\ state'.ball.position = [x |-> Px(StageWidth) \div 2, y |-> Px(StageHeight) \div 2]
          /\ state'.ball.direction = [x |-> 2, y |-> 2]
          /\ ~hasState' /\ paddleR'.latest = None /\ paddleS'.latest = None]_vars
  /\ [](live /\ ~hasState => state = initialState)

\* a session started after a terminal condition, showing the intro
C4_Witness == retries /\ live /\ screen = "intro" /\ ~hasState

----------------------------------------------------------------------------
\* the session has ended with the loss error / with the win message
Lost == ~live /\ error = Some("game over")
Won == ~live /\ screen = "Congradulations!"
\* a new session shows the intro over a fresh initial state
FreshIntro == live /\ screen = "intro" /\ ~hasState /\ state = initialState

\* C5: a rendered frame whose ball is below stageHeight without a paddle
\* hit ends the session as lost (the loss message is drawn, restart$
\* errors with 'game over'), and a new session with a fresh initial state
\* follows.
C5_LostThenRestart ==
  /\ [][RenderStep /\ state.ball.position.y > Px(StageHeight) /\ ~collision.paddle =>
          /\ error' = Some("game over") /\ ~live'
          /\ (state.bricks # <<>> => screen' = "GAME OVER")]_vars
  /\ [][NewSession => FreshIntro']_vars
  /\ ((Lost /\ state.ball.position.y > Px(StageHeight) /\ ~collision.paddle) ~> FreshIntro)

\* the session has just been lost by a ball below the floor that no paddle hit
C5_Witness ==
  /\ Lost /\ screen = "GAME OVER"
  /\ state.ball.position.y > Px(StageHeight)
  /\ ~collision.paddle

\* C6: a rendered frame with no brick left ends the session as won (the win
\* message is drawn, the session is terminated) and a new session with a
\* fresh initial state follows; the win message is never shown while a
\* brick remains.
C6_WonThenRestart ==
  /\ [][RenderStep /\ state.bricks = <<>> => screen' = "Congradulations!" /\ ~live']_vars
  /\ [][RenderStep /\ state.bricks # <<>> => screen' # "Congradulations!"]_vars
  /\ [](screen = "Congradulations!" => state.bricks = <<>> /\ ~live)
  /\ [][NewSession => FreshIntro']_vars
  /\ (Won ~> FreshIntro)

\* the session has just been won
C6_Witness == Won /\ state.bricks = <<>> /\ error = Some("cong")

\* C7 as stated: the session is lost at a rendered frame exactly when the
\* ball's y is more than one radius beyond the stage height.
C7_LostBeyondFloorPlusRadius ==
  [][RenderStep =>
       (error' = Some("game over")
          <=> state.ball.position.y > Px(StageHeight) + Px(BALL_RADIUS))]_vars

\* C7 amended: the session is lost at a rendered frame exactly when the
\* ball's y is greater than stageHeight - BALL_RADIUS (the ball touches the
\* floor); a frame with y at most stageHeight - BALL_RADIUS is never lost.
C7_LostWithinRadiusOfFloor ==
  /\ [][RenderStep =>
          (error' = Some("game over")
             <=> state.ball.position.y > Px(StageHeight) - Px(BALL_RADIUS))]_vars
  /\ [](error = Some("game over") =>
          state.ball.position.y > Px(StageHeight) - Px(BALL_RADIUS))

\* a session lost with the ball above the stage's lower edge
C7_Witness ==
  /\ Lost
  /\ state.ball.position.y > Px(StageHeight) - Px(BALL_RADIUS)
  /\ state.ball.position.y <= Px(StageHeight)

\* C8: the frame on which a session is lost never shows a state whose
\* reducer step recorded a paddle hit.
C8_NoLossOnPaddleHit == error = Some("game over") => ~collision.paddle

\* the reducer step at pc = "state" has a deltaTime of 0 (not null)
ZeroTick == ReducerStep /\ started["state"] /\ elapsed = 0

\* C9 as stated: a reducer step with deltaTime = 0 leaves the ball's
\* position and direction as they were.
C9_ZeroTickKeepsBall == [][ZeroTick => state'.ball = state.ball]_vars

\* C9 amended: a reducer step with deltaTime = 0 leaves the ball's position
\* as it was, removes only bricks that collide and adds 10 for each, and
\* changes the direction only by the collision flips: x is negated iff the
\* ball is in a wall band, y iff a brick, the paddle or the ceiling is hit.
C9_ZeroTickKeepsPosition ==
  [][ZeroTick =>
       /\ state'.ball.position = state.ball.position
       /\ state'.ball.direction.x =
            (IF collision'.wall THEN -state.ball.direction.x ELSE state.ball.direction.x)
       /\ state'.ball.direction.y =
            (IF collision'.brick \/ collision'.paddle \/ collision'.ceiling
             THEN -state.ball.direction.y ELSE state.ball.direction.y)
       /\ IsSubSeq(state'.bricks, state.bricks)
       /\ collision'.brick <=> state'.bricks # state.bricks
       /\ state'.score = state.score + 10 * (Len(state.bricks) - Len(state'.bricks))
       /\ (collision' = NoCollision => state' = state)]_vars

\* a reducer step with deltaTime = 0 has just flipped both directions of a
\* ball that stayed where it was
C9_Witness ==
  /\ pc = "main" /\ started["main"] /\ elapsed = 0 /\ paddleS.latest # None
  /\ collision.wall /\ collision.ceiling

\* C10: after a reducer step that leaves the ball within one radius of the
\* left boundary the ball heads away from it (a ball that came in moving
\* left has been flipped, a ball already flipped is not flipped back), and
\* the motion of the next step does not take a ball that is inside the
\* playfield out through that boundary.
C10_LeftWallBounce ==
  /\ [](collision.wall /\ state.ball.position.x < Px(BALL_RADIUS)
          => state.ball.direction.x > 0)
  /\ [][(/\ ReducerStep
          /\ collision.wall
          /\ state.ball.position.x < Px(BALL_RADIUS)
          /\ state.ball.position.x >= 0)
         => state'.ball.position.x >= 0]_vars

----------------------------------------------------------------------------
\* C11: in every reducer step direction.y is negated once if a brick, the
\* paddle or the ceiling was hit in that step (however many of them), and is
\* kept otherwise; direction.x is negated once iff the ball is in a wall
\* band, whatever happens to y.  The collision flags are those of the
\* position the step has produced.
C11_FlipOncePerAxis ==
  [][ReducerStep =>
       /\ collision'.paddle <=> isHit(state'.ball, paddleS.latest[1])
       /\ collision'.wall <=> WallHit(state'.ball.position)
       /\ collision'.ceiling <=> CeilingHit(state'.ball.position)
       /\ collision'.brick <=> Len(state'.bricks) < Len(state.bricks)
       /\ state'.ball.direction.y =
            (IF collision'.brick \/ collision'.paddle \/ collision'.ceiling
             THEN -state.ball.direction.y ELSE state.ball.direction.y)
       /\ state'.ball.direction.x =
            (IF collision'.wall THEN -state.ball.direction.x ELSE state.ball.direction.x)]_vars

\* a reducer step has just recorded a paddle hit and a brick hit together,
\* without a wall hit: y points up after one flip, x is as it was
C11_Witness ==
  /\ pc = "main" /\ hasState
  /\ collision.paddle /\ collision.brick /\ ~collision.wall
  /\ state.ball.direction.y < 0

----------------------------------------------------------------------------
\* the first value of the ticker$ subscription called name passes
FirstTick(name) == ~started[name] /\ started'[name]

\* C12: the first tick of a ticker$ subscription (deltaTime null) moves
\* neither the paddle nor the ball, and the paddle position, the ball
\* position and the score are numbers in every state.
C12_FirstTickNeutral ==
  /\ [][FirstTick("paddleR") => paddleR'.position = paddleR.position]_vars
  /\ [][FirstTick("paddleS") => paddleS'.position = paddleS.position]_vars
  /\ [][FirstTick("state") => state'.ball.position = state.ball.position]_vars
  /\ [](/\ paddleR.position \in Int /\ paddleS.position \in Int
        /\ state.ball.position.x \in Int /\ state.ball.position.y \in Int
        /\ state.score \in Nat)

\* the first tick of state$'s ticker has run the reducer, with a direction
\* that moves the paddle on any later tick: ball and paddle are where they
\* started
C12_Witness ==
  /\ pc = "main" /\ started["state"] /\ ~started["main"]
  /\ steps = 1 /\ hasState
  /\ direction = Some(ARROW_RIGHT)
  /\ paddleS.latest = Some(Px(StageWidth) \div 2)
  /\ state.ball.position = initialState.ball.position

----------------------------------------------------------------------------
\* the document receives the press / the release of an arrow key that was
\* up / down
Press(key) == live /\ key \notin held /\ held' = held \cup {key}
Release(key) == live /\ key \in held /\ held' = held \ {key}

\* C13: the direction after an arrow-key event is that event's value: -1
\* after a press of ArrowLeft, +1 after a press of ArrowRight, 0 after the
\* release of either, also when the other arrow key is still held; a
\* direction that has a value is -1, 0 or +1.
C13_LastKeyEventWins ==
  /\ [][Press("ArrowLeft") => direction' = Some(ARROW_LEFT)]_vars
  /\ [][Press("ArrowRight") => direction' = Some(ARROW_RIGHT)]_vars
  /\ [][(\E key \in Arrows : Release(key)) => direction' = Some(0)]_vars
  /\ [][held = Arrows /\ (\E key \in Arrows : Release(key)) => direction' = Some(0)]_vars
  /\ [](direction # None => direction[1] \in {ARROW_LEFT, 0, ARROW_RIGHT})

\* ArrowLeft is still held, the direction is 0 and the paddle has been
\* integrated with it
C13_Witness ==
  /\ held = {"ArrowLeft"}
  /\ direction = Some(0)
  /\ paddleR.latest # None /\ started["main"]

----------------------------------------------------------------------------
\* the interval callback of the paddle$ of the renderer / of state$ runs
PaddleRTick == live /\ pc = "paddleR" /\ pc' = "paddleS"
PaddleSTick == live /\ pc = "paddleS" /\ pc' = "state"

\* C14 as stated: from its first frame tick on, also before any key event,
\* each paddle stream has a latest value.
C14_PaddleAlwaysCurrent ==
  /\ started["paddleR"] => paddleR.latest # None
  /\ started["paddleS"] => paddleS.latest # None

\* C14 amended: direction$ has no value until the session's first emitting
\* key event and keeps one from then on; a frame tick gives the paddle
\* stream a latest value exactly when the direction has one, so before that
\* event the paddle streams have no value and the reducer and the renderer
\* have nothing to read.
C14_CurrentAfterFirstKeyEvent ==
  /\ [][PaddleRTick => (paddleR'.latest # None <=> direction # None)]_vars
  /\ [][PaddleSTick => (paddleS'.latest # None <=> direction # None)]_vars
  /\ [][live /\ live' /\ direction # None => direction' # None]_vars
  /\ [](direction = None => paddleR.latest = None /\ paddleS.latest = None /\ ~hasState)

\* the renderer's paddle$ has just sampled a direction, while the paddle$ of
\* state$ has only ticked before the first key event and holds no value
C14_Witness ==
  /\ pc = "paddleS" /\ direction # None
  /\ paddleR.emitted /\ paddleR.latest # None
  /\ started["paddleS"] /\ paddleS.latest = None

----------------------------------------------------------------------------
\* C15: a session ends only by a rendered frame that draws the loss or the
\* win message and errors restart$; from then until game$ is subscribed
\* again nothing is rendered and no reducer step is made; the only step of
\* an ended session is the restart, which draws the intro of a new session,
\* and the intro is drawn again by nothing else; every ended session is
\* followed by a new one.
C15_TerminalBecomesOneRestart ==
  /\ [][live /\ ~live' =>
          /\ RenderStep
          /\ error = None /\ error' # None
          /\ screen' \in {"GAME OVER", "Congradulations!"}]_vars
  /\ [][~live =>
          \/ state' = state /\ screen' = screen /\ steps' = steps /\ ~live'
          \/ NewSession /\ FreshIntro' /\ error' = None /\ steps' = 0]_vars
  /\ [][screen # "intro" /\ screen' = "intro" => NewSession]_vars
  /\ [](live <=> error = None)
  /\ (~live ~> FreshIntro)

\* a session that followed a terminal outcome is being played
C15_Witness ==
  /\ retries /\ live /\ screen = "game"
  /\ hasState /\ steps > 0

----------------------------------------------------------------------------
\* a key event that changes the direction or the set of held arrow keys
KeyStep == live /\ pc' = pc /\ (direction' # direction \/ held' # held)

\* C16: a key event changes nothing but the direction (and the keys held):
\* paddle, ball, bricks, score and canvas stay as they are, and no timer
\* callback runs; within a session the direction changes by key events
\* only; a tick of a paddle stream adds to the position integrated so far
\* the displacement of that tick's delta under the direction current at
\* the tick.
C16_KeyEventOnlySetsDirection ==
  /\ [][KeyStep =>
          UNCHANGED <<paddleR, paddleS, state, hasState, collision, steps,
                      screen, started, elapsed, live, error>>]_vars
  /\ [][live /\ direction' # direction => KeyStep]_vars
  /\ [][PaddleRTick /\ direction # None =>
          paddleR'.position =
            NextPosition(paddleR.position,
                         PaddleDist([deltaTime |-> Some(elapsed')], direction[1]))]_vars
  /\ [][PaddleSTick /\ direction # None =>
          paddleS'.position =
            NextPosition(paddleS.position,
                         PaddleDist([deltaTime |-> Some(elapsed)], direction[1]))]_vars

\* ArrowLeft has been pressed after the paddle was moved to the right of
\* the centre; the press has not moved it
C16_Witness ==
  /\ pc = "paddleR" /\ screen = "game"
  /\ direction = Some(ARROW_LEFT) /\ held = {"ArrowLeft"}
  /\ paddleR.position > Px(StageWidth) \div 2
  /\ paddleS.position = paddleR.position

----------------------------------------------------------------------------
\* C17: a tick of a paddle stream emits exactly when the clamped position
\* differs from the stream's previous emission (or there is none yet), so
\* two consecutive emissions are never equal; a tick that does not emit
\* leaves the consumers' value as it is, and that value is always the
\* position the scan holds.
C17_PaddleEmitsOnChange ==
  /\ [][PaddleRTick /\ direction # None =>
          /\ paddleR'.emitted <=> paddleR.latest # Some(paddleR'.position)
          /\ paddleR'.emitted => paddleR'.latest # paddleR.latest
          /\ ~paddleR'.emitted => paddleR'.latest = paddleR.latest]_vars
  /\ [][PaddleSTick /\ direction # None =>
          /\ paddleS'.emitted <=> paddleS.latest # Some(paddleS'.position)
          /\ paddleS'.emitted => paddleS'.latest # paddleS.latest
          /\ ~paddleS'.emitted => paddleS'.latest = paddleS.latest]_vars
  /\ [](\A p \in {paddleR, paddleS} : p.latest # None => p.latest = Some(p.position))

\* a tick with a positive delta and ArrowRight held has left the paddle
\* at the right end and has emitted nothing
C17_Witness ==
  /\ pc = "paddleS" /\ started["paddleS"] /\ elapsed > 0
  /\ direction = Some(ARROW_RIGHT)
  /\ ~paddleR.emitted
  /\ paddleR.latest = Some(Px(StageWidth) - Px(PADDLE_WIDTH) \div 2)

----------------------------------------------------------------------------
\* C18: a session starts with the intro on the canvas, and while no key
\* event has given the direction a value the intro stays, no reducer step
\* is made and ball, bricks and score are the initial ones, whatever number
\* of frames pass; a state is produced and a game frame is rendered only
\* after a key event.
C18_IntroUntilKeyEvent ==
  /\ [][NewSession => screen' = "intro" /\ direction' = None]_vars
  /\ [](live /\ direction = None =>
          /\ screen = "intro"
          /\ steps = 0 /\ ~hasState
          /\ state = initialState
          /\ collision = NoCollision)
  /\ [][live /\ direction = None /\ direction' = None =>
          UNCHANGED <<state, screen, steps, hasState, paddleR, paddleS>>]_vars
  /\ [](live /\ (hasState \/ screen # "intro") => direction # None)

\* a second frame is passing without any key event: the intro is shown and
\* the state is the initial one
C18_Witness ==
  /\ live /\ direction = None
  /\ pc = "main" /\ started["state"] /\ started["main"] /\ elapsed > 0
  /\ screen = "intro" /\ state = initialState /\ ~hasState

----------------------------------------------------------------------------
\* C19: after a reducer step that recorded a paddle hit the ball's
\* direction.y is negative (the ball heads up): a ball the paddle has
\* bounced is not turned down again by a later step that finds it still in
\* the paddle band.
C19_PaddleHitHeadsUp == collision.paddle => state.ball.direction.y < 0

\* C20: in every rendered frame the paddle position given to updateView is
\* the one the reducer tested the paddle hit with when it produced the
\* state of that frame.
C20_RenderedPaddleIsReducerPaddle ==
  [][RenderStep => paddleR.latest = paddleS.latest]_vars

====
